---- MODULE Spec2Model ----
(***************************************************************************)
(* Model of the movie catalogue: the three record stores (StorageJson,     *)
(* StorageCsv, movie_storage) and the two command-line front ends that     *)
(* drive them (MovieApp in movie_app.py, the function-based menu in        *)
(* movies.py).                                                             *)
(*                                                                         *)
(* Text is a sequence of one-character strings.  A Python value is a       *)
(* tagged record: int, float (held in hundredths), str or None.  A dict    *)
(* of movies is the sequence of its items in insertion order.              *)
(*                                                                         *)
(* file is the backing file of the store in use.  twin is the file of a    *)
(* StorageCsv that is handed the same calls as a StorageJson on file (used *)
(* to compare the two stores); it stays absent otherwise.                  *)
(***************************************************************************)
EXTENDS Integers, Sequences, FiniteSets, TLC

VARIABLES backend, omdb_api_key, file, twin, pc, pend, out, last

vars == <<backend, omdb_api_key, file, twin, pc, pend, out, last>>

-----------------------------------------------------------------------------
(* Bounds of the model *)

\* adds are explored while the stored collection has fewer records than this
MaxMovies == 2

-----------------------------------------------------------------------------
(* Text and numbers *)

Digits == <<"0", "1", "2", "3", "4", "5", "6", "7", "8", "9">>

DigitSet == {Digits[i] : i \in 1..10}

DigitChar(d) == Digits[d + 1]

DigitVal(c) == CHOOSE d \in 0..9 : Digits[d + 1] = c

\* str.isspace for the characters of the model
Whitespace == {" "}

RECURSIVE NatStr(_)
\* decimal digits of a natural number (int.__repr__)
NatStr(n) == IF n < 10 THEN <<DigitChar(n)>>
             ELSE NatStr(n \div 10) \o <<DigitChar(n % 10)>>

\* str(n) for a Python int
IntStr(n) == IF n < 0 THEN <<"-">> \o NatStr(0 - n) ELSE NatStr(n)

RECURSIVE NatVal(_)
\* value of a non-empty sequence of decimal digits
NatVal(t) == IF Len(t) = 0 THEN 0
             ELSE 10 * NatVal(SubSeq(t, 1, Len(t) - 1)) + DigitVal(t[Len(t)])

AllDigits(t) == \A i \in 1..Len(t) : t[i] \in DigitSet

RECURSIVE LStrip(_)
LStrip(t) == IF Len(t) > 0 /\ t[1] \in Whitespace THEN LStrip(Tail(t)) ELSE t

RECURSIVE RStrip(_)
RStrip(t) == IF Len(t) > 0 /\ t[Len(t)] \in Whitespace
             THEN RStrip(SubSeq(t, 1, Len(t) - 1)) ELSE t

\* str.strip()
Strip(t) == RStrip(LStrip(t))

RECURSIVE IndexFrom(_, _, _)
IndexFrom(t, c, i) == IF i > Len(t) THEN 0
                      ELSE IF t[i] = c THEN i ELSE IndexFrom(t, c, i + 1)

\* index of the first occurrence of character c in t, 0 when absent
FirstIndex(t, c) == IndexFrom(t, c, 1)

\* t.split(c)[0]
SplitFirst(t, c) == IF FirstIndex(t, c) = 0 THEN t
                    ELSE SubSeq(t, 1, FirstIndex(t, c) - 1)

\* a literal with its sign removed
Unsigned(t) == IF Len(t) > 0 /\ t[1] \in {"-", "+"} THEN Tail(t) ELSE t

IsNegative(t) == Len(t) > 0 /\ t[1] = "-"

\* int(text) succeeds: optional blanks, optional sign, one or more digits
IsIntLiteral(text) ==
    LET t == Unsigned(Strip(text)) IN Len(t) > 0 /\ AllDigits(t)

\* int(text) when it succeeds
IntValue(text) ==
    LET s == Strip(text) IN
    IF IsNegative(s) THEN 0 - NatVal(Unsigned(s)) ELSE NatVal(Unsigned(s))

\* the digits before and after the decimal point of an unsigned literal
WholePart(t) == SplitFirst(t, ".")

FracPart(t) == IF FirstIndex(t, ".") = 0 THEN <<>>
               ELSE SubSeq(t, FirstIndex(t, ".") + 1, Len(t))

\* float(text) succeeds: optional blanks, optional sign, digits with at most
\* one decimal point and at least one digit.  The model holds floats in
\* hundredths, so a literal has at most two fractional digits.
IsFloatLiteral(text) ==
    LET t == Unsigned(Strip(text)) IN
    /\ AllDigits(WholePart(t))
    /\ AllDigits(FracPart(t))
    /\ Len(WholePart(t)) + Len(FracPart(t)) > 0
    /\ Len(FracPart(t)) <= 2

\* float(text) when it succeeds, in hundredths
FloatValue(text) ==
    LET s == Strip(text)
        t == Unsigned(s)
        f == FracPart(t)
        h == 100 * NatVal(WholePart(t))
             + (IF Len(f) = 0 THEN 0
                ELSE IF Len(f) = 1 THEN 10 * NatVal(f) ELSE NatVal(f))
    IN IF IsNegative(s) THEN 0 - h ELSE h

\* float.__repr__ of a float held in hundredths: the shortest digits that
\* read back as the same float, always with a fractional part
NatFloatRepr(h) ==
    NatStr(h \div 100) \o <<".">> \o
    (IF h % 10 = 0 THEN <<DigitChar((h % 100) \div 10)>>
     ELSE <<DigitChar((h % 100) \div 10), DigitChar(h % 10)>>)

FloatRepr(h) == IF h < 0 THEN <<"-">> \o NatFloatRepr(0 - h) ELSE NatFloatRepr(h)

-----------------------------------------------------------------------------
(* Python values *)

PyInt(n) == [k |-> "int", n |-> n, s |-> <<>>]

PyFloat(h) == [k |-> "float", n |-> h, s |-> <<>>]

PyStr(t) == [k |-> "str", n |-> 0, s |-> t]

PyNone == [k |-> "none", n |-> 0, s |-> <<>>]

IsNumber(v) == v.k \in {"int", "float"}

\* a number in hundredths, whatever its type
Hundredths(v) == IF v.k = "int" THEN 100 * v.n ELSE v.n

\* Python's ==: numbers compare by value (9 == 9.0), other values by type and value
PyEq(a, b) == IF IsNumber(a) /\ IsNumber(b) THEN Hundredths(a) = Hundredths(b)
              ELSE a = b

\* str(v), as csv.writer applies it to a field (None becomes the empty string)
PyToStr(v) == CASE v.k = "int" -> IntStr(v.n)
                [] v.k = "float" -> FloatRepr(v.n)
                [] v.k = "str" -> v.s
                [] OTHER -> <<>>

-----------------------------------------------------------------------------
(* The movies dict: its items in insertion order, each a title and an info  *)
(* dict (a function from field names to Python values)                      *)

Keys(movies) == {movies[i].title : i \in 1..Len(movies)}

\* title in movies
Has(movies, title) == title \in Keys(movies)

IndexOf(movies, title) == CHOOSE i \in 1..Len(movies) : movies[i].title = title

\* movies[title]
Get(movies, title) == movies[IndexOf(movies, title)].info

\* movies[title] = info: an existing key keeps its place, a new key goes last
DictSet(movies, title, info) ==
    IF Has(movies, title)
    THEN [movies EXCEPT ![IndexOf(movies, title)].info = info]
    ELSE Append(movies, [title |-> title, info |-> info])

\* DictDel with the bug of dropping the last item whatever the title
DictDelLast(movies, title) == SubSeq(movies, 1, Len(movies) - 1)

\* del movies[title], for a title that is a key
DictDel(movies, title) ==
    LET i == IndexOf(movies, title) IN
    SubSeq(movies, 1, i - 1) \o SubSeq(movies, i + 1, Len(movies))

\* the info dict {"rating": rating, "year": year, "poster": poster}
Info3(rating, year, poster) ==
    [f \in {"rating", "year", "poster"} |->
        IF f = "rating" THEN rating ELSE IF f = "year" THEN year ELSE poster]

\* the info dict {"year": year, "rating": rating}
Info2(year, rating) ==
    [f \in {"year", "rating"} |-> IF f = "year" THEN year ELSE rating]

-----------------------------------------------------------------------------
(* JSON documents.  The document json.dump writes for a dict of movies is   *)
(* held as the sequence of its members; every key and scalar is held in its *)
(* serialized text.                                                         *)

Quote == "\""

Backslash == "\\"

RECURSIVE JsonEscape(_)
\* the body of a JSON string: quotation mark and backslash are escaped
JsonEscape(t) ==
    IF Len(t) = 0 THEN <<>>
    ELSE (IF t[1] \in {Quote, Backslash} THEN <<Backslash, t[1]>> ELSE <<t[1]>>)
         \o JsonEscape(Tail(t))

RECURSIVE JsonUnescape(_)
JsonUnescape(t) ==
    IF Len(t) = 0 THEN <<>>
    ELSE IF t[1] = Backslash /\ Len(t) > 1
         THEN <<t[2]>> \o JsonUnescape(SubSeq(t, 3, Len(t)))
         ELSE <<t[1]>> \o JsonUnescape(Tail(t))

JsonString(t) == <<Quote>> \o JsonEscape(t) \o <<Quote>>

JsonNull == <<"n", "u", "l", "l">>

\* json.dumps of a scalar
JsonEncode(v) == CASE v.k = "int" -> IntStr(v.n)
                   [] v.k = "float" -> FloatRepr(v.n)
                   [] v.k = "str" -> JsonString(v.s)
                   [] OTHER -> JsonNull

\* json.loads of a scalar: a string, null, a number with a fraction (float)
\* or a number without one (int)
JsonDecode(tok) ==
    IF Len(tok) > 0 /\ tok[1] = Quote
    THEN PyStr(JsonUnescape(SubSeq(tok, 2, Len(tok) - 1)))
    ELSE IF tok = JsonNull THEN PyNone
    ELSE IF FirstIndex(tok, ".") # 0 THEN PyFloat(FloatValue(tok))
    ELSE PyInt(IntValue(tok))

\* json.dump(movies, fileobj, ...)
json_dump(movies) ==
    [i \in 1..Len(movies) |->
        [key |-> JsonString(movies[i].title),
         value |-> [f \in DOMAIN movies[i].info |-> JsonEncode(movies[i].info[f])]]]

RECURSIVE JsonMembers(_, _)
\* the dict built from the members of a document, read in order
JsonMembers(doc, movies) ==
    IF Len(doc) = 0 THEN movies
    ELSE JsonMembers(Tail(doc),
            DictSet(movies, JsonDecode(doc[1].key).s,
                    [f \in DOMAIN doc[1].value |-> JsonDecode(doc[1].value[f])]))

\* json.load(fileobj)
json_load(doc) == JsonMembers(doc, <<>>)

-----------------------------------------------------------------------------
(* CSV files: the sequence of the lines csv.writer writes (each ended by    *)
(* "\r\n" in the file), the first being the header                          *)

Comma == ","

fieldnames == << <<"t", "i", "t", "l", "e">>, <<"y", "e", "a", "r">>,
                 <<"r", "a", "t", "i", "n", "g">>,
                 <<"p", "o", "s", "t", "e", "r">> >>

RECURSIVE DoubleQuotes(_)
DoubleQuotes(t) ==
    IF Len(t) = 0 THEN <<>>
    ELSE (IF t[1] = Quote THEN <<Quote, Quote>> ELSE <<t[1]>>)
         \o DoubleQuotes(Tail(t))

\* CsvField with the bug of not doubling the quotes inside a quoted field
CsvFieldUndoubled(t) ==
    IF \E i \in 1..Len(t) : t[i] \in {Comma, Quote}
    THEN <<Quote>> \o t \o <<Quote>>
    ELSE t

\* QUOTE_MINIMAL: a field holding the delimiter or the quote character is
\* written between quotes, its quotes doubled
CsvField(t) ==
    IF \E i \in 1..Len(t) : t[i] \in {Comma, Quote}
    THEN <<Quote>> \o DoubleQuotes(t) \o <<Quote>>
    ELSE t

RECURSIVE CsvJoin(_)
CsvJoin(fields) ==
    IF Len(fields) = 0 THEN <<>>
    ELSE IF Len(fields) = 1 THEN CsvField(fields[1])
    ELSE CsvField(fields[1]) \o <<Comma>> \o CsvJoin(Tail(fields))

\* writer.writerow of a sequence of Python values
writerow(values) == CsvJoin([i \in 1..Len(values) |-> PyToStr(values[i])])

RECURSIVE CsvScan(_, _, _, _)
\* csv.reader over one line.  mode: "start" of a field, "field" (unquoted),
\* "quoted", "quote" (a quote seen inside a quoted field)
CsvScan(line, mode, cur, row) ==
    IF Len(line) = 0
    THEN (IF mode = "start" /\ Len(row) = 0 THEN <<>> ELSE Append(row, cur))
    ELSE LET c == line[1]
             rest == Tail(line)
         IN CASE mode = "start" /\ c = Quote -> CsvScan(rest, "quoted", cur, row)
              [] mode = "quoted" /\ c = Quote -> CsvScan(rest, "quote", cur, row)
              [] mode = "quoted" /\ c # Quote ->
                    CsvScan(rest, "quoted", Append(cur, c), row)
              [] mode = "quote" /\ c = Quote ->
                    CsvScan(rest, "quoted", Append(cur, c), row)
              [] mode \in {"start", "field", "quote"} /\ c = Comma ->
                    CsvScan(rest, "start", <<>>, Append(row, cur))
              [] OTHER -> CsvScan(rest, "field", Append(cur, c), row)

\* the fields of one line
CsvRow(line) == CsvScan(line, "start", <<>>, <<>>)

\* row[name] of csv.DictReader: the field under the header column called name
RowGet(header, row, name) ==
    LET i == CHOOSE j \in 1..Len(header) : header[j] = name IN row[i]

RECURSIVE CsvRows(_, _, _)
\* the loop of list_movies over the DictReader: blank lines are skipped
CsvRows(header, lines, movies) ==
    IF Len(lines) = 0 THEN movies
    ELSE LET row == CsvRow(lines[1]) IN
         IF Len(row) = 0 THEN CsvRows(header, Tail(lines), movies)
         ELSE CsvRows(header, Tail(lines),
                DictSet(movies, RowGet(header, row, fieldnames[1]),
                    Info3(PyFloat(FloatValue(RowGet(header, row, fieldnames[3]))),
                          PyInt(IntValue(RowGet(header, row, fieldnames[2]))),
                          PyStr(RowGet(header, row, fieldnames[4])))))

\* the rows StorageCsv writes: the header, then one row per movie
CsvWrite(movies) ==
    <<CsvJoin(fieldnames)>> \o
    [i \in 1..Len(movies) |->
        writerow(<<PyStr(movies[i].title), movies[i].info["year"],
                   movies[i].info["rating"], movies[i].info["poster"]>>)]

-----------------------------------------------------------------------------
(* The record stores.  A backing file is [exists, data]; data is the JSON   *)
(* document or the CSV lines.  A storage call yields the file it leaves,    *)
(* the exception it raises ("none" when it returns), whether it wrote the   *)
(* file and the dict it held when it finished.                              *)

NoFile == [exists |-> FALSE, data |-> <<>>]

Returned(f, wrote, movies, loaded) ==
    [file |-> f, raised |-> "none", wrote |-> wrote, movies |-> movies,
     loaded |-> loaded]

Raised(f, exception, loaded) ==
    [file |-> f, raised |-> exception, wrote |-> FALSE, movies |-> loaded,
     loaded |-> loaded]

\* open(self.file_path, 'w') followed by json.dump
JsonFile(movies) == [exists |-> TRUE, data |-> json_dump(movies)]

\* open(self.file_path, mode='w') followed by the header and the rows
CsvFile(movies) == [exists |-> TRUE, data |-> CsvWrite(movies)]

StorageJson_list_movies(f) == IF f.exists THEN json_load(f.data) ELSE <<>>

\* lines 36-42 of add_movie, on the dict list_movies returned
JsonAdd(movies, title, info) ==
    Returned(JsonFile(DictSet(movies, title, info)), TRUE,
             DictSet(movies, title, info), movies)

StorageJson_add_movie(f, title, year, rating, poster) ==
    JsonAdd(StorageJson_list_movies(f), title, Info3(rating, year, poster))

\* lines 50-53 of delete_movie
JsonDelete(f, movies, title) ==
    IF Has(movies, title)
    THEN Returned(JsonFile(DictDel(movies, title)), TRUE, DictDel(movies, title),
                  movies)
    ELSE Returned(f, FALSE, movies, movies)

StorageJson_delete_movie(f, title) ==
    JsonDelete(f, StorageJson_list_movies(f), title)

\* SetRating with the bug of rating the first movie whatever the title
SetRatingOfFirst(movies, title, rating) ==
    [movies EXCEPT ![1].info["rating"] = rating]

\* movies[title]['rating'] = rating
SetRating(movies, title, rating) ==
    [movies EXCEPT ![IndexOf(movies, title)].info["rating"] = rating]

\* lines 62-65 of update_movie
JsonUpdate(f, movies, title, rating) ==
    IF Has(movies, title)
    THEN Returned(JsonFile(SetRating(movies, title, rating)), TRUE,
                  SetRating(movies, title, rating), movies)
    ELSE Returned(f, FALSE, movies, movies)

StorageJson_update_movie(f, title, rating) ==
    JsonUpdate(f, StorageJson_list_movies(f), title, rating)

\* a missing file gives {}; a file without lines has no header and no rows
StorageCsv_list_movies(f) ==
    IF f.exists /\ Len(f.data) > 0
    THEN CsvRows(CsvRow(f.data[1]), Tail(f.data), <<>>)
    ELSE <<>>

\* lines 50-68 of add_movie
CsvAdd(f, movies, title, info) ==
    IF ~Has(movies, title)
    THEN Returned(CsvFile(DictSet(movies, title, info)), TRUE,
                  DictSet(movies, title, info), movies)
    ELSE Returned(f, FALSE, movies, movies)

StorageCsv_add_movie(f, title, year, rating, poster) ==
    CsvAdd(f, StorageCsv_list_movies(f), title, Info3(rating, year, poster))

\* lines 76-90 of delete_movie
CsvDelete(f, movies, title) ==
    IF Has(movies, title)
    THEN Returned(CsvFile(DictDel(movies, title)), TRUE, DictDel(movies, title),
                  movies)
    ELSE Returned(f, FALSE, movies, movies)

StorageCsv_delete_movie(f, title) ==
    CsvDelete(f, StorageCsv_list_movies(f), title)

\* lines 98-113 of update_movie
CsvUpdate(f, movies, title, rating) ==
    IF Has(movies, title)
    THEN Returned(CsvFile(SetRating(movies, title, rating)), TRUE,
                  SetRating(movies, title, rating), movies)
    ELSE Returned(f, FALSE, movies, movies)

StorageCsv_update_movie(f, title, rating) ==
    CsvUpdate(f, StorageCsv_list_movies(f), title, rating)

\* movie_storage: get_movies opens the file without catching FileNotFoundError
get_movies(f) == json_load(f.data)

save_movies(movies) == [exists |-> TRUE, data |-> json_dump(movies)]

\* lines 43-47 of add_movie
LegacyAdd(movies, title, info) ==
    Returned(save_movies(DictSet(movies, title, info)), TRUE,
             DictSet(movies, title, info), movies)

movie_storage_add_movie(f, title, year, rating) ==
    IF ~f.exists THEN Raised(f, "FileNotFoundError", <<>>)
    ELSE LegacyAdd(get_movies(f), title, Info2(year, rating))

\* lines 57-61 of delete_movie
LegacyDelete(f, movies, title) ==
    IF ~Has(movies, title) THEN Raised(f, "KeyError", movies)
    ELSE Returned(save_movies(DictDel(movies, title)), TRUE,
                  DictDel(movies, title), movies)

movie_storage_delete_movie(f, title) ==
    IF ~f.exists THEN Raised(f, "FileNotFoundError", <<>>)
    ELSE LegacyDelete(f, get_movies(f), title)

\* lines 70-74 of update_movie
LegacyUpdate(f, movies, title, rating) ==
    IF ~Has(movies, title) THEN Raised(f, "KeyError", movies)
    ELSE Returned(save_movies(SetRating(movies, title, rating)), TRUE,
                  SetRating(movies, title, rating), movies)

movie_storage_update_movie(f, title, rating) ==
    IF ~f.exists THEN Raised(f, "FileNotFoundError", <<>>)
    ELSE LegacyUpdate(f, get_movies(f), title, rating)

\* self._storage is the StorageJson or the StorageCsv main.py constructs
list_movies(b, f) == IF b = "csv" THEN StorageCsv_list_movies(f)
                     ELSE StorageJson_list_movies(f)

add_movie(b, f, title, year, rating, poster) ==
    IF b = "csv" THEN StorageCsv_add_movie(f, title, year, rating, poster)
    ELSE StorageJson_add_movie(f, title, year, rating, poster)

delete_movie(b, f, title) ==
    IF b = "csv" THEN StorageCsv_delete_movie(f, title)
    ELSE StorageJson_delete_movie(f, title)

update_movie(b, f, title, rating) ==
    IF b = "csv" THEN StorageCsv_update_movie(f, title, rating)
    ELSE StorageJson_update_movie(f, title, rating)

\* the collection the backing file holds, as the backend in use loads it
Collection == IF backend = "csv" THEN StorageCsv_list_movies(file)
              ELSE IF file.exists THEN json_load(file.data) ELSE <<>>

-----------------------------------------------------------------------------
(* Validation (movies.py) *)

min_year == 1887

\* datetime.now().year
current_year == 2026

Letters == {"a", "b", "c", "d", "e", "f", "g", "h", "i", "j", "k", "l", "m",
            "n", "o", "p", "q", "r", "s", "t", "u", "v", "w", "x", "y", "z",
            "A", "B", "C", "D", "E", "F", "G", "H", "I", "J", "K", "L", "M",
            "N", "O", "P", "Q", "R", "S", "T", "U", "V", "W", "X", "Y", "Z"}

\* the character class [a-zA-Z0-9\s\-',.!?]
NameChars == Letters \cup DigitSet \cup Whitespace \cup {"-", "'", ",", ".", "!", "?"}

\* the outcome of valid_movie_name: "ok", the ValueError it raises, or the
\* FileNotFoundError of get_movies
valid_movie_name(f, movie_name) ==
    IF Len(Strip(movie_name)) = 0 THEN "ValueError: name empty"
    ELSE IF ~(\A i \in 1..Len(movie_name) : movie_name[i] \in NameChars)
         THEN "ValueError: invalid characters"
    ELSE IF ~f.exists THEN "FileNotFoundError"
    ELSE IF Has(get_movies(f), movie_name) THEN "ValueError: already exists"
    ELSE "ok"

valid_year(year) ==
    IF ~IsIntLiteral(year) THEN "ValueError: year not an integer"
    ELSE IF ~(min_year <= IntValue(year) /\ IntValue(year) <= current_year)
         THEN "ValueError: year out of range"
    ELSE "ok"

valid_rating(rating) ==
    IF ~IsFloatLiteral(rating) THEN "ValueError: rating not a float"
    ELSE IF ~(0 <= FloatValue(rating) /\ FloatValue(rating) <= 1000)
         THEN "ValueError: rating out of range"
    ELSE IF FloatValue(rating) % 10 # 0 THEN "ValueError: rating decimals"
    ELSE "ok"

-----------------------------------------------------------------------------
(* Inputs: what the user types and what the OMDb service answers *)

\* the character U+2013 (en dash) of a ranged year such as 2001-2003
EnDash == "U+2013"

T_Ab == <<"A", "b">>

T_b == <<"b">>

\* a, "b"
T_quoted == <<"a", ",", " ", Quote, "b", Quote>>

NotANumber == <<"N", "/", "A">>

Txt(v) == PyStr(v)

\* the parsed JSON of a response, an absent key being None; kind "error" is a
\* requests.exceptions.RequestException
Answer(kind, title, year, rating, poster) ==
    [kind |-> kind, Title |-> title, Year |-> year, imdbRating |-> rating,
     Poster |-> poster]

ApiResponses ==
    { Answer("error", <<>>, PyNone, PyNone, PyNone),
      Answer("False", <<>>, PyNone, PyNone, PyNone),
      Answer("True", T_Ab, Txt(<<"1", "9", "9", "9">>), Txt(<<"7", ".", "5">>),
             Txt(<<"p">>)),
      Answer("True", T_Ab, Txt(<<"1", "9", "9", "9">>), Txt(<<"8", ".", "1">>),
             Txt(<<"q">>)),
      Answer("True", T_quoted,
             Txt(<<"2", "0", "0", "1", EnDash, "2", "0", "0", "3">>),
             Txt(<<"1", "0", ".", "0">>), Txt(<<>>)),
      Answer("True", T_b, Txt(<<"2", "0", "2", "7">>), Txt(<<"6", ".", "0">>),
             Txt(<<"p">>)),
      Answer("True", T_b, PyNone, PyNone, PyNone),
      Answer("True", T_b, Txt(<<"1", "9", "9", "9">>), Txt(NotANumber), Txt(<<"p">>)) }

\* titles typed at a MovieApp prompt
TitleInputs == {T_Ab, <<"b", " ">>, T_quoted}

\* titles a caller hands to IStorage.update_movie
UpdateTitles == {T_Ab, T_quoted}

\* names typed at a movies.py prompt
NameInputs == {T_Ab, T_b, T_quoted, <<" ">>}

YearInputs == { <<"1", "8", "8", "7">>, <<"2", "0", "2", "6">>,
                <<"1", "8", "8", "6">>, <<"2", "0", "2", "7">>, NotANumber }

RatingInputs == { <<"7", ".", "5">>, <<"1", "0">>, <<"1", "0", ".", "1">>,
                  <<"-", "0", ".", "1">>, <<"7", ".", "5", "5">>, NotANumber }

\* ratings a caller hands to IStorage.update_movie
UpdateRatings == {PyInt(9), PyFloat(1050)}

-----------------------------------------------------------------------------
(* The record of the last operation: what it was asked, the collection it   *)
(* loaded, and what it handed to the writer                                 *)

Op(op, title, year, rating, poster, r) ==
    [op |-> op, title |-> title, year |-> year, rating |-> rating,
     poster |-> poster, pre |-> r.loaded, preExists |-> file.exists,
     raised |-> r.raised, wrote |-> r.wrote, written |-> r.movies]

\* the store was not called, or a handler stopped before calling it; movies is
\* the collection the file held
NotCalled(f, movies) == Returned(f, FALSE, movies, movies)

NoPend == [name |-> <<>>, year |-> 0]

EmptyFile(b) == IF b = "csv" THEN CsvFile(<<>>) ELSE JsonFile(<<>>)

Init ==
    /\ backend \in {"json", "csv", "legacy"}
    /\ omdb_api_key \in (IF backend = "legacy" THEN {FALSE} ELSE BOOLEAN)
    /\ file \in {NoFile, EmptyFile(backend)}
    /\ twin = NoFile
    /\ pc = "menu"
    /\ pend = NoPend
    /\ out = "none"
    /\ last = [op |-> "none", title |-> <<>>, year |-> PyNone, rating |-> PyNone,
               poster |-> PyNone, pre |-> <<>>, preExists |-> file.exists,
               raised |-> "none", wrote |-> FALSE, written |-> <<>>]

-----------------------------------------------------------------------------
(* MovieApp (movie_app.py) over StorageJson or StorageCsv *)

\* data.get(key, default) on the text of a response field
DataGet(v, default) == IF v = PyNone THEN default ELSE v.s

\* _fetch_movie_data: the ValueError it raises, or the message it prints and
\* None, or the movie details
Fetched(raised, printed, found, title, year, rating, poster) ==
    [raised |-> raised, printed |-> printed, found |-> found, title |-> title,
     year |-> year, rating |-> rating, poster |-> poster]

NotFetched(raised, printed) ==
    Fetched(raised, printed, FALSE, <<>>, PyNone, PyNone, PyNone)

\* the Year field up to the first en dash, stripped
YearText(resp) == Strip(SplitFirst(DataGet(resp.Year, <<"0">>), EnDash))

RatingText(resp) == DataGet(resp.imdbRating, <<"0", ".", "0">>)

\* fetch_movie_data with the bug of not looking at the Response field
fetch_movie_data_unchecked(key, resp) ==
    IF ~key THEN NotFetched("ValueError", "Error: OMDb API key not found")
    ELSE IF resp.kind = "error"
         THEN NotFetched("none", "Error: Unable to connect to the OMDb API")
    ELSE Fetched("none", "none", TRUE, resp.Title, PyInt(IntValue(YearText(resp))),
                 PyFloat(FloatValue(RatingText(resp))),
                 PyStr(DataGet(resp.Poster, <<>>)))

fetch_movie_data(key, resp) ==
    IF ~key THEN NotFetched("ValueError", "Error: OMDb API key not found")
    ELSE IF resp.kind = "error"
         THEN NotFetched("none", "Error: Unable to connect to the OMDb API")
    ELSE IF resp.kind = "False" THEN NotFetched("none", "Error: Movie not found")
    ELSE IF ~IsIntLiteral(YearText(resp))
         THEN NotFetched("ValueError", "invalid literal for int()")
    ELSE IF ~IsFloatLiteral(RatingText(resp))
         THEN NotFetched("ValueError", "could not convert string to float")
    ELSE Fetched("none", "none", TRUE, resp.Title, PyInt(IntValue(YearText(resp))),
                 PyFloat(FloatValue(RatingText(resp))),
                 PyStr(DataGet(resp.Poster, <<>>)))

\* MovieApp._add_movie with the service answering resp
MovieApp_add_movie(resp) ==
    /\ backend \in {"json", "csv"}
    /\ pc = "menu"
    /\ \E d \in {fetch_movie_data(omdb_api_key, resp)} :
       \E r \in {IF d.found
                 THEN add_movie(backend, file, d.title, d.year, d.rating, d.poster)
                 ELSE NotCalled(file, list_movies(backend, file))} :
          /\ Len(r.movies) <= MaxMovies
          /\ file' = r.file
          /\ out' = (IF d.found THEN "successfully added" ELSE d.printed)
          /\ last' = Op("add", d.title, d.year, d.rating, d.poster, r)
                        @@ [lookup |-> resp.kind]
    /\ UNCHANGED <<backend, omdb_api_key, twin, pc, pend>>

\* MovieApp._delete_movie with the user typing a title
MovieApp_delete_movie(typed) ==
    /\ backend \in {"json", "csv"}
    /\ pc = "menu"
    /\ \E r \in {delete_movie(backend, file, Strip(typed))} :
          /\ file' = r.file
          /\ out' = (IF r.raised = "KeyError" THEN "does not exist"
                     ELSE "successfully deleted")
          /\ last' = Op("delete", Strip(typed), PyNone, PyNone, PyNone, r)
    /\ UNCHANGED <<backend, omdb_api_key, twin, pc, pend>>

\* MovieApp._update_movie_rating: the store is not called
MovieApp_update_movie_rating ==
    /\ backend \in {"json", "csv"}
    /\ pc = "menu"
    /\ out' = "updating is disabled"
    /\ last' = Op("update disabled", <<>>, PyNone, PyNone, PyNone,
                  NotCalled(file, list_movies(backend, file)))
    /\ UNCHANGED <<backend, omdb_api_key, twin, file, pc, pend>>

\* a caller of the IStorage interface updating a rating
IStorage_update_movie(title, rating) ==
    /\ backend \in {"json", "csv"}
    /\ pc = "menu"
    /\ \E r \in {update_movie(backend, file, title, rating)} :
          /\ file' = r.file
          /\ out' = (IF r.raised = "none" THEN "returned" ELSE r.raised)
          /\ last' = Op("update", title, PyNone, rating, PyNone, r)
    /\ UNCHANGED <<backend, omdb_api_key, twin, pc, pend>>

-----------------------------------------------------------------------------
(* The menu of movies.py over movie_storage.  An exception other than the   *)
(* ones a handler catches leaves main: the process ends ("crashed").        *)

\* the year or rating a prompt's text stands for, None when it is no number
YearOf(text) == IF IsIntLiteral(text) THEN PyInt(IntValue(text)) ELSE PyNone

RatingOf(text) == IF IsFloatLiteral(text) THEN PyFloat(FloatValue(text)) ELSE PyNone

LoadedOrNothing == IF file.exists THEN get_movies(file) ELSE <<>>

\* add_movie, first loop: the name prompt
add_movie_name(name) ==
    /\ backend = "legacy"
    /\ pc \in {"menu", "add_name"}
    /\ \E v \in {valid_movie_name(file, name)}, pre \in {LoadedOrNothing} :
          /\ v = "ok" => Len(pre) < MaxMovies
          /\ pc' = (IF v = "ok" THEN "add_year"
                    ELSE IF v = "FileNotFoundError" THEN "crashed" ELSE "add_name")
          /\ pend' = (IF v = "ok" THEN [name |-> name, year |-> 0] ELSE NoPend)
          /\ out' = (IF v = "ok" THEN "prompt" ELSE v)
          /\ last' = Op("add", name, PyNone, PyNone, PyNone,
                        IF v = "FileNotFoundError" THEN Raised(file, v, pre)
                        ELSE NotCalled(file, pre))
    /\ UNCHANGED <<backend, omdb_api_key, twin, file>>

\* add_movie, second loop: the year prompt
add_movie_year(year) ==
    /\ backend = "legacy"
    /\ pc = "add_year"
    /\ \E v \in {valid_year(year)} :
          /\ pc' = (IF v = "ok" THEN "add_rating" ELSE "add_year")
          /\ pend' = (IF v = "ok" THEN [pend EXCEPT !.year = IntValue(year)]
                      ELSE pend)
          /\ out' = (IF v = "ok" THEN "prompt" ELSE v)
    /\ last' = Op("add", pend.name, YearOf(year), PyNone, PyNone,
                  NotCalled(file, LoadedOrNothing))
    /\ UNCHANGED <<backend, omdb_api_key, twin, file>>

\* add_movie, third loop and the calls on movie_storage that follow it
add_movie_rating(rating) ==
    /\ backend = "legacy"
    /\ pc = "add_rating"
    /\ \E v \in {valid_rating(rating)} :
       \E r \in {IF v = "ok"
                 THEN movie_storage_add_movie(file, pend.name, PyInt(pend.year),
                                              PyFloat(FloatValue(rating)))
                 ELSE NotCalled(file, LoadedOrNothing)} :
          /\ pc' = (IF v = "ok" THEN "menu" ELSE "add_rating")
          /\ pend' = (IF v = "ok" THEN NoPend ELSE pend)
          /\ file' = (IF v = "ok" THEN save_movies(get_movies(r.file)) ELSE file)
          /\ out' = (IF v = "ok" THEN "successfully added" ELSE v)
          /\ last' = Op("add", pend.name, PyInt(pend.year), RatingOf(rating),
                        PyNone, r)
    /\ UNCHANGED <<backend, omdb_api_key, twin>>

\* delete_movie of movies.py
movies_delete_movie(name) ==
    /\ backend = "legacy"
    /\ pc = "menu"
    /\ \E r \in {movie_storage_delete_movie(file, name)} :
          /\ pc' = (IF r.raised = "FileNotFoundError" THEN "crashed" ELSE "menu")
          /\ file' = (IF r.raised = "none" THEN save_movies(get_movies(r.file))
                      ELSE file)
          /\ out' = (IF r.raised = "none" THEN "successfully deleted"
                     ELSE IF r.raised = "KeyError" THEN "does not exist"
                     ELSE r.raised)
          /\ last' = Op("delete", name, PyNone, PyNone, PyNone, r)
    /\ UNCHANGED <<backend, omdb_api_key, twin, pend>>

\* update_movie_rating, the name prompt and the membership test
update_movie_rating_name(name) ==
    /\ backend = "legacy"
    /\ pc = "menu"
    /\ \E pre \in {LoadedOrNothing} :
       \E found \in {Has(pre, name)} :
          /\ pc' = (IF ~file.exists THEN "crashed"
                    ELSE IF found THEN "update_rating" ELSE "menu")
          /\ pend' = (IF found THEN [name |-> name, year |-> 0] ELSE NoPend)
          /\ out' = (IF ~file.exists THEN "FileNotFoundError"
                     ELSE IF found THEN "prompt" ELSE "does not exist")
          /\ last' = Op("update", name, PyNone, PyNone, PyNone,
                        IF file.exists THEN NotCalled(file, pre)
                        ELSE Raised(file, "FileNotFoundError", pre))
    /\ UNCHANGED <<backend, omdb_api_key, twin, file>>

\* update_movie_rating, the rating loop and movie_storage.update_movie
update_movie_rating_value(rating) ==
    /\ backend = "legacy"
    /\ pc = "update_rating"
    /\ \E v \in {valid_rating(rating)} :
       \E r \in {IF v = "ok"
                 THEN movie_storage_update_movie(file, pend.name,
                                                 PyFloat(FloatValue(rating)))
                 ELSE NotCalled(file, LoadedOrNothing)} :
          /\ pc' = (IF v = "ok" THEN "menu" ELSE "update_rating")
          /\ pend' = (IF v = "ok" THEN NoPend ELSE pend)
          /\ file' = (IF v = "ok" THEN r.file ELSE file)
          /\ out' = (IF v # "ok" THEN v
                     ELSE IF r.raised = "KeyError" THEN "does not exist"
                     ELSE "successfully updated")
          /\ last' = Op("update", pend.name, PyNone, RatingOf(rating), PyNone, r)
    /\ UNCHANGED <<backend, omdb_api_key, twin>>

-----------------------------------------------------------------------------

Next ==
    \/ \E resp \in ApiResponses : MovieApp_add_movie(resp)
    \/ \E typed \in TitleInputs : MovieApp_delete_movie(typed)
    \/ MovieApp_update_movie_rating
    \/ \E title \in UpdateTitles, rating \in UpdateRatings :
            IStorage_update_movie(title, rating)
    \/ \E name \in NameInputs : add_movie_name(name)
    \/ \E year \in YearInputs : add_movie_year(year)
    \/ \E rating \in RatingInputs : add_movie_rating(rating)
    \/ \E name \in NameInputs : movies_delete_movie(name)
    \/ \E name \in NameInputs : update_movie_rating_name(name)
    \/ \E rating \in RatingInputs : update_movie_rating_value(rating)

Spec == Init /\ [][Next]_vars

-----------------------------------------------------------------------------
(* A StorageJson on file and a StorageCsv on twin, both starting without a  *)
(* file and handed the same IStorage calls                                  *)

\* titles a caller hands to add_movie, delete_movie and update_movie
TwinTitles == {T_Ab, T_quoted}

\* the arguments of add_movie: the details a lookup can return for these titles
TwinAdds == {d \in {fetch_movie_data(TRUE, resp) : resp \in ApiResponses} :
                d.found /\ d.title \in TwinTitles}

TwinInit ==
    /\ backend = "json"
    /\ omdb_api_key = FALSE
    /\ file = NoFile
    /\ twin = NoFile
    /\ pc = "menu"
    /\ pend = NoPend
    /\ out = "none"
    /\ last = [op |-> "none", title |-> <<>>, year |-> PyNone, rating |-> PyNone,
               poster |-> PyNone, pre |-> <<>>, preExists |-> FALSE,
               raised |-> "none", wrote |-> FALSE, written |-> <<>>]

\* add_movie(title, year, rating, poster) on both stores
Twin_add_movie(d) ==
    /\ \E j \in {StorageJson_add_movie(file, d.title, d.year, d.rating, d.poster)},
          c \in {StorageCsv_add_movie(twin, d.title, d.year, d.rating, d.poster)} :
          /\ Len(j.movies) <= MaxMovies
          /\ file' = j.file
          /\ twin' = c.file
          /\ out' = "returned"
          /\ last' = Op("add", d.title, d.year, d.rating, d.poster, j)
    /\ UNCHANGED <<backend, omdb_api_key, pc, pend>>

\* delete_movie(title) on both stores
Twin_delete_movie(title) ==
    /\ \E j \in {StorageJson_delete_movie(file, title)},
          c \in {StorageCsv_delete_movie(twin, title)} :
          /\ file' = j.file
          /\ twin' = c.file
          /\ out' = "returned"
          /\ last' = Op("delete", title, PyNone, PyNone, PyNone, j)
    /\ UNCHANGED <<backend, omdb_api_key, pc, pend>>

\* update_movie(title, rating) on both stores
Twin_update_movie(title, rating) ==
    /\ \E j \in {StorageJson_update_movie(file, title, rating)},
          c \in {StorageCsv_update_movie(twin, title, rating)} :
          /\ file' = j.file
          /\ twin' = c.file
          /\ out' = "returned"
          /\ last' = Op("update", title, PyNone, rating, PyNone, j)
    /\ UNCHANGED <<backend, omdb_api_key, pc, pend>>

\* list_movies() on both stores
Twin_list_movies ==
    /\ out' = "listed"
    /\ last' = Op("list", <<>>, PyNone, PyNone, PyNone,
                  NotCalled(file, StorageJson_list_movies(file)))
    /\ UNCHANGED <<backend, omdb_api_key, file, twin, pc, pend>>

TwinNext ==
    \/ \E d \in TwinAdds : Twin_add_movie(d)
    \/ \E title \in TwinTitles : Twin_delete_movie(title)
    \/ \E title \in TwinTitles, rating \in UpdateRatings :
            Twin_update_movie(title, rating)
    \/ Twin_list_movies

TwinSpec == TwinInit /\ [][TwinNext]_vars

-----------------------------------------------------------------------------
(* Queries: the functions the listing, statistics, search, sort and filter  *)
(* handlers apply to the loaded dict                                        *)

UpperLetters == <<"A", "B", "C", "D", "E", "F", "G", "H", "I", "J", "K", "L", "M",
                  "N", "O", "P", "Q", "R", "S", "T", "U", "V", "W", "X", "Y", "Z">>

LowerLetters == <<"a", "b", "c", "d", "e", "f", "g", "h", "i", "j", "k", "l", "m",
                  "n", "o", "p", "q", "r", "s", "t", "u", "v", "w", "x", "y", "z">>

\* str.lower()
Lower(t) ==
    [i \in 1..Len(t) |->
        IF \E k \in 1..26 : UpperLetters[k] = t[i]
        THEN LowerLetters[CHOOSE k \in 1..26 : UpperLetters[k] = t[i]]
        ELSE t[i]]

\* str.upper()
Upper(t) ==
    [i \in 1..Len(t) |->
        IF \E k \in 1..26 : LowerLetters[k] = t[i]
        THEN UpperLetters[CHOOSE k \in 1..26 : LowerLetters[k] = t[i]]
        ELSE t[i]]

\* sub in t, for two strings
Contains(sub, t) ==
    \E i \in 0..(Len(t) - Len(sub)) : SubSeq(t, i + 1, i + Len(sub)) = sub

RECURSIVE SplitWords(_, _, _)
SplitWords(t, cur, words) ==
    IF Len(t) = 0 THEN (IF Len(cur) = 0 THEN words ELSE Append(words, cur))
    ELSE IF t[1] \in Whitespace
         THEN SplitWords(Tail(t), <<>>,
                         IF Len(cur) = 0 THEN words ELSE Append(words, cur))
    ELSE SplitWords(Tail(t), Append(cur, t[1]), words)

\* str.split(): the words between runs of whitespace
Split(t) == SplitWords(t, <<>>, <<>>)

\* the lines f"{title} ({info['year']}): {info['rating']}"
Lines(items) ==
    [i \in 1..Len(items) |->
        items[i].title \o <<" ", "(">> \o PyToStr(items[i].info["year"])
            \o <<")", ":", " ">> \o PyToStr(items[i].info["rating"])]

\* the lines f"{title}, {movies[title]['rating']}" of search_movies
SearchLines(items) ==
    [i \in 1..Len(items) |->
        items[i].title \o <<",", " ">> \o PyToStr(items[i].info["rating"])]

RECURSIVE SelectWhere(_, _)
\* [item for item in movies.items() if condition]: keep[i] is the condition
\* on the i-th item
SelectWhere(items, keep) ==
    IF Len(items) = 0 THEN <<>>
    ELSE (IF keep[1] THEN <<items[1]>> ELSE <<>>)
         \o SelectWhere(Tail(items), Tail(keep))

\* the sort key lambda x: x[1][field], as a number
KeyOf(item, field) == Hundredths(item.info[field])

\* sorted with the bug of obtaining the descending order by reversing the
\* ascending one
sorted_then_reversed(items, field, reverse) ==
    LET Asc[n \in 0..Len(items)] ==
            IF n = 0 THEN <<>>
            ELSE LET x == items[n]
                     before == {i \in 1..Len(Asc[n - 1]) :
                                   KeyOf(Asc[n - 1][i], field) <= KeyOf(x, field)}
                 IN SubSeq(Asc[n - 1], 1, Cardinality(before)) \o <<x>>
                    \o SubSeq(Asc[n - 1], Cardinality(before) + 1, n - 1)
        a == Asc[Len(items)]
    IN IF reverse THEN [i \in 1..Len(a) |-> a[Len(a) + 1 - i]] ELSE a

\* sorted with the bug of ignoring reverse
sorted_ascending(items, field, reverse) ==
    LET Asc[n \in 0..Len(items)] ==
            IF n = 0 THEN <<>>
            ELSE LET x == items[n]
                     before == {i \in 1..Len(Asc[n - 1]) :
                                   KeyOf(Asc[n - 1][i], field) <= KeyOf(x, field)}
                 IN SubSeq(Asc[n - 1], 1, Cardinality(before)) \o <<x>>
                    \o SubSeq(Asc[n - 1], Cardinality(before) + 1, n - 1)
    IN Asc[Len(items)]

RECURSIVE InsertSorted(_, _, _, _)
\* x goes after the last item it may not pass: sorted() is stable, also with
\* reverse=True (equal keys keep their original order)
InsertSorted(acc, x, field, reverse) ==
    IF \/ Len(acc) = 0
       \/ IF reverse THEN KeyOf(acc[Len(acc)], field) >= KeyOf(x, field)
          ELSE KeyOf(acc[Len(acc)], field) <= KeyOf(x, field)
    THEN Append(acc, x)
    ELSE Append(InsertSorted(SubSeq(acc, 1, Len(acc) - 1), x, field, reverse),
                acc[Len(acc)])

RECURSIVE SortInto(_, _, _, _)
SortInto(acc, items, field, reverse) ==
    IF Len(items) = 0 THEN acc
    ELSE SortInto(InsertSorted(acc, items[1], field, reverse), Tail(items),
                  field, reverse)

\* sorted(movies.items(), key=lambda x: x[1][field], reverse=reverse)
sorted(items, field, reverse) == SortInto(<<>>, items, field, reverse)

\* sorted(ratings): the ratings in ascending order, in hundredths
SortedRatings(items) ==
    LET s == sorted(items, "rating", FALSE)
    IN [i \in 1..Len(s) |-> KeyOf(s[i], "rating")]

\* PyMax with the bug of keeping the last of the items with the greatest rating
PyMaxLast(items) ==
    items[CHOOSE i \in 1..Len(items) :
            /\ \A j \in 1..Len(items) : KeyOf(items[j], "rating") <= KeyOf(items[i], "rating")
            /\ \A j \in (i + 1)..Len(items) :
                  KeyOf(items[j], "rating") < KeyOf(items[i], "rating")]

RECURSIVE MaxFrom(_, _)
MaxFrom(best, items) ==
    IF Len(items) = 0 THEN best
    ELSE MaxFrom(IF KeyOf(items[1], "rating") > KeyOf(best, "rating")
                 THEN items[1] ELSE best, Tail(items))

\* max(movies.items(), key=lambda x: x[1]["rating"]): an item replaces the
\* one held only when its rating is greater
PyMax(items) == MaxFrom(items[1], Tail(items))

RECURSIVE MinFrom(_, _)
MinFrom(worst, items) ==
    IF Len(items) = 0 THEN worst
    ELSE MinFrom(IF KeyOf(items[1], "rating") < KeyOf(worst, "rating")
                 THEN items[1] ELSE worst, Tail(items))

\* min(movies.items(), key=lambda x: x[1]["rating"])
PyMin(items) == MinFrom(items[1], Tail(items))

RECURSIVE SumRatings(_)
\* sum(ratings), in hundredths
SumRatings(items) ==
    IF Len(items) = 0 THEN 0
    ELSE KeyOf(items[1], "rating") + SumRatings(Tail(items))

RECURSIVE LcsRow(_, _, _, _, _)
\* one row of the longest-common-subsequence table: the lengths for the
\* prefix ending in character a against the prefixes b[1..j].  The row is
\* measured at every step so that each cell is computed before the next.
LcsRow(a, b, prev, j, row) ==
    IF Len(row) >= Len(b) THEN row
    ELSE LET diag == IF j = 1 THEN 0 ELSE prev[j - 1]
             left == IF j = 1 THEN 0 ELSE row[j - 1]
             cell == IF a = b[j] THEN diag + 1
                     ELSE IF prev[j] >= left THEN prev[j] ELSE left
         IN LcsRow(a, b, prev, j + 1, Append(row, cell))

RECURSIVE LcsRows(_, _, _, _)
LcsRows(a, b, i, prev) ==
    IF i > Len(a) \/ Len(prev) = 0 THEN prev
    ELSE LcsRows(a, b, i + 1, LcsRow(a[i], b, prev, 1, <<>>))

\* rapidfuzz fuzz.ratio(a, b): the normalized Indel similarity times 100,
\* 100 * (1 - (len(a) + len(b) - 2 * lcs) / (len(a) + len(b))), held as the
\* fraction num / den (100 for two empty strings); lcs is the length of the
\* longest common subsequence, the last cell of the last row of its table
fuzz_ratio(a, b) ==
    IF Len(a) + Len(b) = 0 THEN [num |-> 100, den |-> 1]
    ELSE IF Len(b) = 0 THEN [num |-> 0, den |-> Len(a)]
    ELSE [num |-> 200 * LcsRows(a, b, 1, [j \in 1..Len(b) |-> 0])[Len(b)],
          den |-> Len(a) + Len(b)]

fuzz_limit == 70

RECURSIVE fuzzy_words_no_break(_, _, _, _)
\* fuzzy_words with the bug of going on with the words after a similar one
fuzzy_words_no_break(item, words, search_str, found) ==
    IF Len(words) = 0 THEN found
    ELSE fuzzy_words_no_break(item, Tail(words), search_str,
            IF \E ratio \in {fuzz_ratio(search_str, Lower(words[1]))} :
                  ratio.num > fuzz_limit * ratio.den
            THEN Append(found, item) ELSE found)

RECURSIVE fuzzy_words(_, _, _, _)
\* the loop over the words of one title: the title is added at the first
\* word with fuzz_ratio > fuzz_limit and the loop is left
fuzzy_words(item, words, search_str, found) ==
    IF Len(words) = 0 THEN found
    ELSE IF \E ratio \in {fuzz_ratio(search_str, Lower(words[1]))} :
               ratio.num > fuzz_limit * ratio.den
    THEN Append(found, item)
    ELSE fuzzy_words(item, Tail(words), search_str, found)

RECURSIVE fuzzy_titles(_, _, _)
\* the loop over the titles of the dict
fuzzy_titles(movies, search_str, found) ==
    IF Len(movies) = 0 THEN found
    ELSE fuzzy_titles(Tail(movies), search_str,
            fuzzy_words(movies[1], Split(movies[1].title), search_str, found))

\* the titles fuzzy_search lists, in the order it adds them
fuzzy_search(movies, search_str) == fuzzy_titles(movies, search_str, <<>>)

\* Matching with the bug of comparing with the title as it is stored
MatchingCased(movies, search_term) ==
    SelectWhere(movies,
        [i \in 1..Len(movies) |-> Contains(search_term, movies[i].title)])

\* the titles that contain the lowercased search term
Matching(movies, search_term) ==
    SelectWhere(movies,
        [i \in 1..Len(movies) |-> Contains(search_term, Lower(movies[i].title))])

\* Filtered with the bug of a strict comparison with the minimum rating
FilteredAbove(movies, min_rating, start_year, end_year) ==
    SelectWhere(movies,
        [i \in 1..Len(movies) |->
            /\ KeyOf(movies[i], "rating") > min_rating
            /\ 100 * start_year <= KeyOf(movies[i], "year")
            /\ KeyOf(movies[i], "year") <= 100 * end_year])

\* the comprehension of the filter handlers
Filtered(movies, min_rating, start_year, end_year) ==
    SelectWhere(movies,
        [i \in 1..Len(movies) |->
            /\ KeyOf(movies[i], "rating") >= min_rating
            /\ 100 * start_year <= KeyOf(movies[i], "year")
            /\ KeyOf(movies[i], "year") <= 100 * end_year])

-----------------------------------------------------------------------------
(* The menu with its query handlers, started on a stored collection *)

\* the stored collections hold at most this many movies
MaxListed == 3

\* four movies: each pair shares its year, its rating or neither
Catalogue ==
    << [title |-> T_Ab, year |-> 2010, rating |-> 800, poster |-> <<"p">>],
       [title |-> <<"T", "i", "t", "a", "n", "i", "c", "x", " ",
                   "T", "i", "t", "a", "n", "i", "c", "x", "x">>, year |-> 2000, rating |-> 800,
        poster |-> <<>>],
       [title |-> T_quoted, year |-> 2010, rating |-> 790, poster |-> <<"q">>],
       [title |-> <<"T", "i", "t", "a", "n", "i", "c">>, year |-> 2000, rating |-> 790, poster |-> <<>>] >>

\* the record a store holds for a movie: movie_storage keeps no poster
Stored(b, m) ==
    [title |-> m.title,
     info |-> IF b = "legacy" THEN Info2(PyInt(m.year), PyFloat(m.rating))
              ELSE Info3(PyFloat(m.rating), PyInt(m.year), PyStr(m.poster))]

\* the orders in which up to MaxListed different movies can have been added
Selections ==
    {sel \in UNION {[1..n -> 1..Len(Catalogue)] : n \in 0..MaxListed} :
        \A i, j \in DOMAIN sel : i # j => sel[i] # sel[j]}

\* the file a store has written for a dict of movies
FileOf(b, movies) == IF b = "csv" THEN CsvFile(movies)
                     ELSE IF b = "json" THEN JsonFile(movies)
                     ELSE save_movies(movies)

MenuInit ==
    /\ backend \in {"json", "csv", "legacy"}
    /\ omdb_api_key = FALSE
    /\ file \in {NoFile} \cup
                {FileOf(backend, [i \in DOMAIN sel |-> Stored(backend, Catalogue[sel[i]])]) :
                    sel \in Selections}
    /\ twin = NoFile
    /\ pc = "menu"
    /\ pend = NoPend
    /\ out = "none"
    /\ last = [op |-> "none", args |-> <<>>, pre |-> <<>>, preExists |-> file.exists,
               raised |-> "none", wrote |-> FALSE, written |-> <<>>,
               result |-> <<>>, lines |-> <<>>]

\* the record of a query: what was typed, the dict loaded, the items shown
\* in the order shown and the lines printed for them
Asked(op, args, movies, result, lines) ==
    [op |-> op, args |-> args, pre |-> movies, preExists |-> file.exists,
     raised |-> "none", wrote |-> FALSE, written |-> movies,
     result |-> result, lines |-> lines]

\* a query of movies.py ended by an exception that main does not catch
Failed(op, args, movies, exception) ==
    [op |-> op, args |-> args, pre |-> movies, preExists |-> file.exists,
     raised |-> exception, wrote |-> FALSE, written |-> movies,
     result |-> <<>>, lines |-> <<>>]

\* MedianUpper with the bug of taking the lower of the two middle ratings
MedianLower(movies) == SortedRatings(movies)[((Len(movies) - 1) \div 2) + 1]

\* sorted(ratings)[len(ratings) // 2]
MedianUpper(movies) == SortedRatings(movies)[(Len(movies) \div 2) + 1]

\* the statistics of _stats_movies, before they are formatted: fractions for
\* the average and the median, items for the best and the worst movie
MovieApp_stats(movies) ==
    [average |-> [num |-> SumRatings(movies), den |-> Len(movies)],
     median |-> [num |-> MedianUpper(movies), den |-> 1],
     best |-> PyMax(movies),
     worst |-> PyMin(movies)]

\* what is typed at the prompts of the query handlers
SearchInputs ==
    {<<"B">>, <<"A", "B">>, <<"a", "b", "c">>,
     <<"T", "i", "t", "a", "n", "i", "k">>,
     <<"T", "i", "t", "a", "n", "i", "c", "x", "x", "x", "x", "x">>,
     <<"T", "i", "t", "a", "n", "i", "c", "x", "x", "x", "x", "x", "x">>,
     <<"x">>, <<>>}

OrderInputs == {<<"a", "s", "c">>, <<" ", "D", "E", "S", "C">>, <<"u", "p">>}

\* minimum rating, start year and end year
FilterInputs ==
    { << <<>>, <<>>, <<>> >>,
      << <<"8", ".", "0">>, <<"2", "0", "0", "0">>, <<"2", "0", "1", "0">> >>,
      << <<"7", ".", "9">>, <<"2", "0", "0", "1">>, <<>> >>,
      << <<>>, <<>>, <<"2", "0", "0", "9">> >>,
      << NotANumber, <<>>, <<>> >> }

ChoiceInputs == {<<"0">>, <<" ", "0">>, <<"1", "3">>, <<"x">>}

\* MovieApp._list_movies
MovieApp_list_movies ==
    /\ backend \in {"json", "csv"}
    /\ pc = "menu"
    /\ \E movies \in {list_movies(backend, file)} :
          /\ out' = (IF Len(movies) = 0 THEN "No movies found."
                     ELSE "movies in total")
          /\ last' = Asked("list", <<>>, movies, movies, Lines(movies))
    /\ UNCHANGED <<backend, omdb_api_key, file, twin, pc, pend>>

\* MovieApp._stats_movies
MovieApp_stats_movies ==
    /\ backend \in {"json", "csv"}
    /\ pc = "menu"
    /\ \E movies \in {list_movies(backend, file)} :
          /\ out' = (IF Len(movies) = 0 THEN "No movies found." ELSE "statistics")
          /\ last' = (IF Len(movies) = 0
                      THEN Asked("stats", <<>>, movies, <<>>, <<>>)
                      ELSE Asked("stats", <<>>, movies, <<>>, <<>>)
                           @@ [stats |-> MovieApp_stats(movies)])
    /\ UNCHANGED <<backend, omdb_api_key, file, twin, pc, pend>>

\* MovieApp._search_movies with the user typing a search term
MovieApp_search_movies(typed) ==
    /\ backend \in {"json", "csv"}
    /\ pc = "menu"
    /\ \E movies \in {list_movies(backend, file)} :
       \E results \in {Matching(movies, Lower(typed))} :
          /\ out' = (IF Len(results) > 0 THEN "Search Results:"
                     ELSE "No matching movies found.")
          /\ last' = Asked("search", <<typed>>, movies, results, Lines(results))
    /\ UNCHANGED <<backend, omdb_api_key, file, twin, pc, pend>>

\* MovieApp._random_movie, random.choice taking the item at index pick
MovieApp_random_movie(pick) ==
    /\ backend \in {"json", "csv"}
    /\ pc = "menu"
    /\ \E movies \in {list_movies(backend, file)} :
          IF Len(movies) = 0
          THEN /\ pick = 1
               /\ out' = "No movies found."
               /\ last' = Asked("random", <<>>, movies, <<>>, <<>>)
          ELSE /\ pick <= Len(movies)
               /\ out' = "Your random movie:"
               /\ last' = Asked("random", <<>>, movies, <<movies[pick]>>, <<>>)
    /\ UNCHANGED <<backend, omdb_api_key, file, twin, pc, pend>>

\* MovieApp._sort_by_rating with the bug of saving the sorted dict
MovieApp_sort_by_rating_saving ==
    /\ backend \in {"json", "csv"}
    /\ pc = "menu"
    /\ \E movies \in {list_movies(backend, file)} :
       \E sorted_movies \in {sorted(movies, "rating", TRUE)} :
          /\ out' = (IF Len(movies) = 0 THEN "No movies found."
                     ELSE "Movies Sorted by Rating:")
          /\ last' = Asked("sort_by_rating", <<>>, movies, sorted_movies,
                           Lines(sorted_movies))
          /\ file' = (IF Len(movies) = 0 THEN file
                      ELSE FileOf(backend, sorted_movies))
    /\ UNCHANGED <<backend, omdb_api_key, twin, pc, pend>>

\* MovieApp._sort_by_rating
MovieApp_sort_by_rating ==
    /\ backend \in {"json", "csv"}
    /\ pc = "menu"
    /\ \E movies \in {list_movies(backend, file)} :
       \E sorted_movies \in {sorted(movies, "rating", TRUE)} :
          /\ out' = (IF Len(movies) = 0 THEN "No movies found."
                     ELSE "Movies Sorted by Rating:")
          /\ last' = Asked("sort_by_rating", <<>>, movies, sorted_movies,
                           Lines(sorted_movies))
    /\ UNCHANGED <<backend, omdb_api_key, file, twin, pc, pend>>

\* MovieApp._sort_by_year with the user typing an order
MovieApp_sort_by_year(typed) ==
    /\ backend \in {"json", "csv"}
    /\ pc = "menu"
    /\ \E movies \in {list_movies(backend, file)}, order \in {Lower(Strip(typed))} :
          IF Len(movies) = 0
          THEN /\ out' = "No movies found."
               /\ last' = Asked("sort_by_year", <<>>, movies, <<>>, <<>>)
          ELSE IF order \notin {<<"a", "s", "c">>, <<"d", "e", "s", "c">>}
          THEN /\ out' = "Invalid sort order. Use 'asc' or 'desc'."
               /\ last' = Asked("sort_by_year", <<typed>>, movies, <<>>, <<>>)
          ELSE \E sorted_movies \in
                    {sorted(movies, "year", order = <<"d", "e", "s", "c">>)} :
               /\ out' = "Movies Sorted by Year:"
               /\ last' = Asked("sort_by_year", <<typed>>, movies, sorted_movies,
                                Lines(sorted_movies))
    /\ UNCHANGED <<backend, omdb_api_key, file, twin, pc, pend>>

\* float(text or 0), int(text or 1887), int(text or datetime.now().year)
FloatOr(text, default) == IF text = <<>> THEN default ELSE FloatValue(text)

IntOr(text, default) == IF text = <<>> THEN default ELSE IntValue(text)

\* MovieApp._filter_movies with the user typing the three bounds
MovieApp_filter_movies(typed) ==
    /\ backend \in {"json", "csv"}
    /\ pc = "menu"
    /\ \E movies \in {list_movies(backend, file)} :
          IF Len(movies) = 0
          THEN /\ out' = "No movies found."
               /\ last' = Asked("filter", <<>>, movies, <<>>, <<>>)
          ELSE IF \/ (typed[1] # <<>> /\ ~IsFloatLiteral(typed[1]))
                  \/ (typed[2] # <<>> /\ ~IsIntLiteral(typed[2]))
                  \/ (typed[3] # <<>> /\ ~IsIntLiteral(typed[3]))
          THEN /\ out' = "Invalid input. Please enter valid numbers."
               /\ last' = Asked("filter", typed, movies, <<>>, <<>>)
          ELSE \E filtered_movies \in
                    {Filtered(movies, FloatOr(typed[1], 0), IntOr(typed[2], 1887),
                              IntOr(typed[3], current_year))} :
               /\ out' = (IF Len(filtered_movies) > 0 THEN "Filtered Movies:"
                          ELSE "No movies match the filter criteria.")
               /\ last' = Asked("filter", typed, movies, filtered_movies,
                                Lines(filtered_movies))
    /\ UNCHANGED <<backend, omdb_api_key, file, twin, pc, pend>>

\* MovieApp.run reading a choice that names no handler: "0" ends the loop,
\* anything that is not a menu entry is reported
MovieApp_run_choice(typed) ==
    /\ backend \in {"json", "csv"}
    /\ pc = "menu"
    /\ pc' = (IF Strip(typed) = <<"0">> THEN "exited" ELSE "menu")
    /\ out' = (IF Strip(typed) = <<"0">> THEN "Goodbye!"
               ELSE "Invalid choice. Please try again.")
    /\ last' = Asked("choice", <<typed>>, <<>>, <<>>, <<>>)
    /\ UNCHANGED <<backend, omdb_api_key, file, twin, pend>>

\* main of movies.py reading a choice that names no function: 0 leaves by
\* sys.exit, other integers and texts that are no integer are reported
main_choice(typed) ==
    /\ backend = "legacy"
    /\ pc = "menu"
    /\ pc' = (IF IsIntLiteral(typed) /\ IntValue(typed) = 0 THEN "exited"
              ELSE "menu")
    /\ out' = (IF ~IsIntLiteral(typed)
               THEN "Invalid input. Please enter an integer between 0 and 11."
               ELSE IF IntValue(typed) = 0 THEN "Bye!"
               ELSE "Invalid input. Please enter a number between 0 and 11.")
    /\ last' = Asked("choice", <<typed>>, <<>>, <<>>, <<>>)
    /\ UNCHANGED <<backend, omdb_api_key, file, twin, pend>>

\* list_movies of movies.py
movies_list_movies ==
    /\ backend = "legacy"
    /\ pc = "menu"
    /\ IF ~file.exists
       THEN /\ pc' = "crashed"
            /\ out' = "FileNotFoundError"
            /\ last' = Failed("list", <<>>, <<>>, "FileNotFoundError")
       ELSE \E movies \in {get_movies(file)} :
            /\ pc' = "menu"
            /\ out' = "movies in total"
            /\ last' = Asked("list", <<>>, movies, movies, Lines(movies))
    /\ UNCHANGED <<backend, omdb_api_key, file, twin, pend>>

\* the median of stats_movies: the middle rating, or the mean of the two
\* middle ratings of an even number of them
MedianMean(movies) ==
    IF Len(movies) % 2 # 0
    THEN [num |-> SortedRatings(movies)[(Len(movies) \div 2) + 1], den |-> 1]
    ELSE [num |-> SortedRatings(movies)[Len(movies) \div 2]
                  + SortedRatings(movies)[(Len(movies) \div 2) + 1],
          den |-> 2]

movies_stats(movies) ==
    [average |-> [num |-> SumRatings(movies), den |-> Len(movies)],
     median |-> MedianMean(movies),
     best |-> PyMax(movies),
     worst |-> PyMin(movies)]

\* stats_movies of movies.py: the division by len(movies) fails on {}
stats_movies ==
    /\ backend = "legacy"
    /\ pc = "menu"
    /\ IF ~file.exists
       THEN /\ pc' = "crashed"
            /\ out' = "FileNotFoundError"
            /\ last' = Failed("stats", <<>>, <<>>, "FileNotFoundError")
       ELSE \E movies \in {get_movies(file)} :
            IF Len(movies) = 0
            THEN /\ pc' = "crashed"
                 /\ out' = "ZeroDivisionError"
                 /\ last' = Failed("stats", <<>>, movies, "ZeroDivisionError")
            ELSE /\ pc' = "menu"
                 /\ out' = "statistics"
                 /\ last' = Asked("stats", <<>>, movies, <<>>, <<>>)
                             @@ [stats |-> movies_stats(movies)]
    /\ UNCHANGED <<backend, omdb_api_key, file, twin, pend>>

\* search_movies of movies.py with the user typing a search term
search_movies(typed) ==
    /\ backend = "legacy"
    /\ pc = "menu"
    /\ IF ~file.exists
       THEN /\ pc' = "crashed"
            /\ out' = "FileNotFoundError"
            /\ last' = Failed("search", <<>>, <<>>, "FileNotFoundError")
       ELSE \E movies \in {get_movies(file)} :
            \E direct \in {Matching(movies, Lower(typed))} :
            \E similar \in {IF Len(direct) = 0
                             THEN fuzzy_search(movies, Lower(typed)) ELSE <<>>} :
            /\ pc' = "menu"
            /\ out' = (IF Len(direct) > 0 THEN "matches"
                       ELSE IF Len(similar) > 0 THEN "Did you mean:"
                       ELSE "nothing")
            /\ last' = (IF Len(direct) > 0
                        THEN Asked("search", <<typed>>, movies, direct,
                                   SearchLines(direct))
                        ELSE Asked("search", <<typed>>, movies, similar,
                                   SearchLines(similar)))
    /\ UNCHANGED <<backend, omdb_api_key, file, twin, pend>>

\* random_movie of movies.py, random.choice taking the title at index pick;
\* random.choice raises IndexError on an empty list
random_movie(pick) ==
    /\ backend = "legacy"
    /\ pc = "menu"
    /\ IF ~file.exists
       THEN /\ pick = 1
            /\ pc' = "crashed"
            /\ out' = "FileNotFoundError"
            /\ last' = Failed("random", <<>>, <<>>, "FileNotFoundError")
       ELSE \E movies \in {get_movies(file)} :
            IF Len(movies) = 0
            THEN /\ pick = 1
                 /\ pc' = "crashed"
                 /\ out' = "IndexError"
                 /\ last' = Failed("random", <<>>, movies, "IndexError")
            ELSE /\ pick <= Len(movies)
                 /\ pc' = "menu"
                 /\ out' = "Your movie for tonight:"
                 /\ last' = Asked("random", <<>>, movies, <<movies[pick]>>, <<>>)
    /\ UNCHANGED <<backend, omdb_api_key, file, twin, pend>>

\* movies_sorted_by_rating of movies.py
movies_sorted_by_rating ==
    /\ backend = "legacy"
    /\ pc = "menu"
    /\ IF ~file.exists
       THEN /\ pc' = "crashed"
            /\ out' = "FileNotFoundError"
            /\ last' = Failed("sort_by_rating", <<>>, <<>>, "FileNotFoundError")
       ELSE \E movies \in {get_movies(file)} :
            \E sorted_movies \in {sorted(movies, "rating", TRUE)} :
            /\ pc' = "menu"
            /\ out' = (IF Len(movies) = 0 THEN "nothing" ELSE "lines")
            /\ last' = Asked("sort_by_rating", <<>>, movies, sorted_movies,
                             Lines(sorted_movies))
    /\ UNCHANGED <<backend, omdb_api_key, file, twin, pend>>

AnswerInputs == {<<"y">>, <<" ", "N">>, <<"x">>}

\* movies_sorted_by_year of movies.py: the prompt is repeated until the
\* answer is Y or N, then the file is loaded
movies_sorted_by_year(typed) ==
    /\ backend = "legacy"
    /\ pc \in {"menu", "sort_year"}
    /\ \E reverse_order \in {Upper(Strip(typed))} :
          IF reverse_order \notin {<<"Y">>, <<"N">>}
          THEN /\ pc' = "sort_year"
               /\ out' = "Please enter Y or N."
               /\ last' = Asked("sort_prompt", <<typed>>, <<>>, <<>>, <<>>)
          ELSE IF ~file.exists
          THEN /\ pc' = "crashed"
               /\ out' = "FileNotFoundError"
               /\ last' = Failed("sort_by_year", <<typed>>, <<>>, "FileNotFoundError")
          ELSE \E movies \in {get_movies(file)} :
               \E sorted_movies \in {sorted(movies, "year", reverse_order = <<"Y">>)} :
               /\ pc' = "menu"
               /\ out' = (IF Len(movies) = 0
                          THEN "No movies available to sort by year."
                          ELSE "lines")
               /\ last' = Asked("sort_by_year", <<typed>>, movies, sorted_movies,
                                Lines(sorted_movies))
    /\ UNCHANGED <<backend, omdb_api_key, file, twin, pend>>

\* filter_movies of movies.py, first loop: the minimum rating, blank for 0
filter_movies_rating(typed) ==
    /\ backend = "legacy"
    /\ pc \in {"menu", "filter_rating"}
    /\ \E filter_rating \in {Strip(typed)} :
       \E v \in {IF filter_rating = <<>> THEN "ok" ELSE valid_rating(filter_rating)} :
          /\ pc' = (IF v = "ok" THEN "filter_start" ELSE "filter_rating")
          /\ pend' = (IF v = "ok"
                      THEN [typed |-> <<filter_rating>>,
                            filter_rating |-> FloatOr(filter_rating, 0),
                            start_year |-> 0]
                      ELSE NoPend)
          /\ out' = (IF v = "ok" THEN "prompt" ELSE v)
          /\ last' = Asked("filter_prompt", <<typed>>, <<>>, <<>>, <<>>)
    /\ UNCHANGED <<backend, omdb_api_key, file, twin>>

\* filter_movies, second loop: the start year, blank for 1887
filter_movies_start(typed) ==
    /\ backend = "legacy"
    /\ pc = "filter_start"
    /\ \E start_year \in {Strip(typed)} :
       \E v \in {IF start_year = <<>> THEN "ok" ELSE valid_year(start_year)} :
          /\ pc' = (IF v = "ok" THEN "filter_end" ELSE "filter_start")
          /\ pend' = (IF v = "ok"
                      THEN [pend EXCEPT !.typed = Append(@, start_year),
                                        !.start_year = IntOr(start_year, 1887)]
                      ELSE pend)
          /\ out' = (IF v = "ok" THEN "prompt" ELSE v)
          /\ last' = Asked("filter_prompt", <<typed>>, <<>>, <<>>, <<>>)
    /\ UNCHANGED <<backend, omdb_api_key, file, twin>>

\* filter_movies, third loop (the end year, blank for the current year),
\* then the load and the comprehension
filter_movies_end(typed) ==
    /\ backend = "legacy"
    /\ pc = "filter_end"
    /\ \E end_year \in {Strip(typed)} :
       \E v \in {IF end_year = <<>> THEN "ok" ELSE valid_year(end_year)} :
          IF v # "ok"
          THEN /\ pc' = "filter_end"
               /\ pend' = pend
               /\ out' = v
               /\ last' = Asked("filter_prompt", <<typed>>, <<>>, <<>>, <<>>)
          ELSE IF ~file.exists
          THEN /\ pc' = "crashed"
               /\ pend' = NoPend
               /\ out' = "FileNotFoundError"
               /\ last' = Failed("filter", Append(pend.typed, end_year), <<>>,
                                 "FileNotFoundError")
          ELSE \E movies \in {get_movies(file)} :
               \E filtered_movies \in
                    {Filtered(movies, pend.filter_rating, pend.start_year,
                              IntOr(end_year, current_year))} :
               /\ pc' = "menu"
               /\ pend' = NoPend
               /\ out' = (IF Len(filtered_movies) > 0 THEN "Filtered Movies:"
                          ELSE "No movies match the filter criteria.")
               /\ last' = Asked("filter", Append(pend.typed, end_year), movies,
                                filtered_movies, Lines(filtered_movies))
    /\ UNCHANGED <<backend, omdb_api_key, file, twin>>

MenuNext ==
    \/ MovieApp_list_movies
    \/ MovieApp_stats_movies
    \/ \E typed \in SearchInputs : MovieApp_search_movies(typed)
    \/ \E pick \in 1..MaxListed : MovieApp_random_movie(pick)
    \/ MovieApp_sort_by_rating
    \/ \E typed \in OrderInputs : MovieApp_sort_by_year(typed)
    \/ \E typed \in FilterInputs : MovieApp_filter_movies(typed)
    \/ \E typed \in ChoiceInputs : MovieApp_run_choice(typed)
    \/ \E typed \in ChoiceInputs : main_choice(typed)
    \/ movies_list_movies
    \/ stats_movies
    \/ \E typed \in SearchInputs : search_movies(typed)
    \/ \E pick \in 1..MaxListed : random_movie(pick)
    \/ movies_sorted_by_rating
    \/ \E typed \in AnswerInputs : movies_sorted_by_year(typed)
    \/ \E typed \in {t[1] : t \in FilterInputs} : filter_movies_rating(typed)
    \/ \E typed \in {t[2] : t \in FilterInputs} : filter_movies_start(typed)
    \/ \E typed \in {t[3] : t \in FilterInputs} : filter_movies_end(typed)

MenuSpec == MenuInit /\ [][MenuNext]_vars

-----------------------------------------------------------------------------
(* The storage calls step by step.  A call loads the file, changes the dict  *)
(* it holds, opens the file for writing (which empties it), writes the       *)
(* document unit by unit (a member of the JSON object, a line of the CSV     *)
(* file) and closes it.  The process can be interrupted between any two      *)
(* steps.  A file that is open for writing is [exists, data, partial]; data  *)
(* holds the units written so far.  pend holds the outcome r of the call in  *)
(* progress and the number k of units written; last holds the call, the      *)
(* file before it and the step at which the process was interrupted.         *)

\* the calls: add, delete and update of the first and the third movie of the
\* catalogue
StepCalls ==
    {[op |-> o, title |-> Catalogue[i].title, year |-> PyInt(Catalogue[i].year),
      rating |-> (IF o = "update" THEN PyInt(9)
                  ELSE PyFloat(Catalogue[i].rating)),
      poster |-> PyStr(Catalogue[i].poster)] :
        o \in {"add", "delete", "update"}, i \in {1, 3}}

\* the outcome of a call c on the file f of backend b
Call(b, f, c) ==
    IF b = "legacy"
    THEN (IF c.op = "add"
          THEN movie_storage_add_movie(f, c.title, c.year, c.rating)
          ELSE IF c.op = "delete" THEN movie_storage_delete_movie(f, c.title)
          ELSE movie_storage_update_movie(f, c.title, c.rating))
    ELSE (IF c.op = "add" THEN add_movie(b, f, c.title, c.year, c.rating, c.poster)
          ELSE IF c.op = "delete" THEN delete_movie(b, f, c.title)
          ELSE update_movie(b, f, c.title, c.rating))

StepInit ==
    /\ backend \in {"json", "csv", "legacy"}
    /\ omdb_api_key = FALSE
    /\ file \in (IF backend = "legacy" THEN {EmptyFile(backend)}
                 ELSE {NoFile, EmptyFile(backend)})
    /\ twin = NoFile
    /\ pc = "menu"
    /\ pend = [r |-> Returned(file, FALSE, <<>>, <<>>), k |-> 0]
    /\ out = "none"
    /\ last = [op |-> "none", title |-> <<>>, pre |-> file, at |-> "none"]

\* Store_load with the bug of opening the file for writing before it is read
Store_load_truncating(c) ==
    /\ pc = "menu"
    /\ \E r \in {Call(backend, file, c)} :
          /\ Len(r.movies) <= MaxMovies
          /\ pend' = [r |-> r, k |-> 0]
    /\ pc' = "loaded"
    /\ file' = [exists |-> TRUE, data |-> <<>>, partial |-> TRUE]
    /\ last' = [op |-> c.op, title |-> c.title, pre |-> file, at |-> "none"]
    /\ UNCHANGED <<backend, omdb_api_key, twin, out>>

\* the first lines of a call: list_movies / get_movies reads the file, and
\* the dict is changed in memory
Store_load(c) ==
    /\ pc = "menu"
    /\ \E r \in {Call(backend, file, c)} :
          /\ Len(r.movies) <= MaxMovies
          /\ pend' = [r |-> r, k |-> 0]
    /\ pc' = "loaded"
    /\ last' = [op |-> c.op, title |-> c.title, pre |-> file, at |-> "none"]
    /\ UNCHANGED <<backend, omdb_api_key, file, twin, out>>

\* the call ends without writing: the title is absent (or, for
\* StorageCsv.add_movie, present), or movie_storage raises KeyError
Store_finish ==
    /\ pc = "loaded"
    /\ ~pend.r.wrote
    /\ pc' = (IF pend.r.raised = "none" THEN "menu" ELSE "crashed")
    /\ out' = pend.r.raised
    /\ UNCHANGED <<backend, omdb_api_key, file, twin, pend, last>>

\* open(path, 'w'): the file exists and is empty
Store_open ==
    /\ pc = "loaded"
    /\ pend.r.wrote
    /\ pc' = "writing"
    /\ file' = [exists |-> TRUE, data |-> <<>>, partial |-> TRUE]
    /\ UNCHANGED <<backend, omdb_api_key, twin, pend, out, last>>

\* json.dump / writeheader and writerow: the next unit reaches the file
Store_write ==
    /\ pc = "writing"
    /\ pend.k < Len(pend.r.file.data)
    /\ pend' = [pend EXCEPT !.k = pend.k + 1]
    /\ file' = [file EXCEPT !.data = SubSeq(pend.r.file.data, 1, pend.k + 1)]
    /\ UNCHANGED <<backend, omdb_api_key, twin, pc, out, last>>

\* the end of the with block: the document is complete and the file closed
Store_close ==
    /\ pc = "writing"
    /\ pend.k = Len(pend.r.file.data)
    /\ pc' = "menu"
    /\ file' = pend.r.file
    /\ out' = "none"
    /\ UNCHANGED <<backend, omdb_api_key, twin, pend, last>>

\* the process is interrupted (a signal, a power cut) between two steps
Interrupt ==
    /\ pc \in {"loaded", "writing"}
    /\ pc' = "interrupted"
    /\ last' = [last EXCEPT !.at = pc]
    /\ UNCHANGED <<backend, omdb_api_key, file, twin, pend, out>>

StepNext ==
    \/ \E c \in StepCalls : Store_load(c)
    \/ Store_finish
    \/ Store_open
    \/ Store_write
    \/ Store_close
    \/ Interrupt

StepSpec == StepInit /\ [][StepNext]_vars

-----------------------------------------------------------------------------
(* Vocabulary of the properties *)

\* the messages that report a ValueError of the validation functions
ValidationErrors ==
    {"ValueError: name empty", "ValueError: invalid characters",
     "ValueError: already exists", "ValueError: year not an integer",
     "ValueError: year out of range", "ValueError: rating not a float",
     "ValueError: rating out of range", "ValueError: rating decimals"}

YearInRange(v) == v.k = "int" /\ min_year <= v.n /\ v.n <= current_year

RatingInRange(v) == IsNumber(v) /\ 0 <= Hundredths(v) /\ Hundredths(v) <= 1000

\* a rating the front end in use accepts: in range and, at the prompt of
\* movies.py, with at most one decimal
AcceptedRating(v) ==
    RatingInRange(v) /\ (backend = "legacy" => Hundredths(v) % 10 = 0)

\* the same titles in the same order, and Python-equal fields under each
SameCollection(a, b) ==
    /\ Len(a) = Len(b)
    /\ \A i \in 1..Len(a) :
          /\ a[i].title = b[i].title
          /\ DOMAIN a[i].info = DOMAIN b[i].info
          /\ \A f \in DOMAIN a[i].info : PyEq(a[i].info[f], b[i].info[f])

\* the last operation loaded a collection (its load did not fail)
Loaded == last.raised # "FileNotFoundError"

\* equal dicts of movies: the same titles and Python-equal fields under each
SameRecords(a, b) ==
    /\ Keys(a) = Keys(b)
    /\ \A t \in Keys(a) :
          /\ DOMAIN Get(a, t) = DOMAIN Get(b, t)
          /\ \A f \in DOMAIN Get(a, t) : PyEq(Get(a, t)[f], Get(b, t)[f])

\* the items of s at the indices K, in the order of s
SubAt(s, K) ==
    [n \in 1..Cardinality(K) |->
        s[CHOOSE i \in K : Cardinality({j \in K : j <= i}) = n]]

\* the last operation was a query that loaded the collection and went on
Answered(op) == last.op = op /\ last.raised = "none"

RatingOfItem(item) == Hundredths(item.info["rating"])

YearOfItem(item) == item.info["year"].n

\* the bounds a filter stands for: a blank is 0, 1887 or the current year
MinRatingTyped == IF last.args[1] = <<>> THEN 0 ELSE FloatValue(last.args[1])

StartYearTyped == IF last.args[2] = <<>> THEN 1887 ELSE IntValue(last.args[2])

EndYearTyped == IF last.args[3] = <<>> THEN current_year ELSE IntValue(last.args[3])

\* the three bounds typed are blank or numbers
FilterTyped ==
    /\ Len(last.args) = 3
    /\ last.args[1] = <<>> \/ IsFloatLiteral(last.args[1])
    /\ last.args[2] = <<>> \/ IsIntLiteral(last.args[2])
    /\ last.args[3] = <<>> \/ IsIntLiteral(last.args[3])

\* the last operation sorted the loaded collection, and in which direction
SortDescending ==
    \/ last.op = "sort_by_rating"
    \/ /\ last.op = "sort_by_year"
       /\ Len(last.args) = 1
       /\ IF backend = "legacy" THEN Upper(Strip(last.args[1])) = <<"Y">>
          ELSE Lower(last.args[1]) = <<"d", "e", "s", "c">>

SortAscending ==
    /\ last.op = "sort_by_year"
    /\ Len(last.args) = 1
    /\ IF backend = "legacy" THEN Upper(Strip(last.args[1])) = <<"N">>
       ELSE Lower(last.args[1]) = <<"a", "s", "c">>

Sorted == last.raised = "none" /\ (SortDescending \/ SortAscending)

SortKey(item) == IF last.op = "sort_by_rating" THEN RatingOfItem(item)
                 ELSE 100 * YearOfItem(item)

\* the records of the loaded collection whose lowercased title contains the
\* lowercased term of the last search
TitlesContaining ==
    SubAt(last.pre,
          {i \in 1..Len(last.pre) :
              Contains(Lower(last.args[1]), Lower(last.pre[i].title))})

\* the first record of the loaded collection with the greatest, and with the
\* least, rating
FirstBest ==
    last.pre[CHOOSE i \in 1..Len(last.pre) :
        /\ \A j \in 1..Len(last.pre) :
              RatingOfItem(last.pre[j]) <= RatingOfItem(last.pre[i])
        /\ \A j \in 1..(i - 1) :
              RatingOfItem(last.pre[j]) < RatingOfItem(last.pre[i])]

FirstWorst ==
    last.pre[CHOOSE i \in 1..Len(last.pre) :
        /\ \A j \in 1..Len(last.pre) :
              RatingOfItem(last.pre[j]) >= RatingOfItem(last.pre[i])
        /\ \A j \in 1..(i - 1) :
              RatingOfItem(last.pre[j]) > RatingOfItem(last.pre[i])]

\* the last search found no title containing the term and looked for similar
\* titles
Approximate ==
    Answered("search") /\ backend = "legacy" /\ Len(TitlesContaining) = 0

\* the score of the word of the title of an item that is most similar to the
\* lowercased term of the last search is above 70
HasSimilarWord(item) ==
    \E k \in 1..Len(Split(item.title)) :
        LET score == fuzz_ratio(Lower(last.args[1]), Lower(Split(item.title)[k]))
        IN score.num > 70 * score.den

\* how many words of the title of an item score exactly 70, and how many
\* above 70, against the term of the last search
WordsScoring(item, exactly) ==
    Cardinality({k \in 1..Len(Split(item.title)) :
        LET score == fuzz_ratio(Lower(last.args[1]), Lower(Split(item.title)[k]))
        IN IF exactly THEN score.num = 70 * score.den
           ELSE score.num > 70 * score.den})

\* the ratings of the loaded collection in ascending order
AscendingRatings ==
    CHOOSE s \in [1..Len(last.pre) ->
                    {RatingOfItem(last.pre[i]) : i \in 1..Len(last.pre)}] :
        /\ \A i, j \in 1..Len(last.pre) : i < j => s[i] <= s[j]
        /\ \A v \in {RatingOfItem(last.pre[i]) : i \in 1..Len(last.pre)} :
              Cardinality({i \in 1..Len(last.pre) : s[i] = v})
                = Cardinality({i \in 1..Len(last.pre) : RatingOfItem(last.pre[i]) = v})

\* the last operation computed the statistics of n >= 1 movies
StatsOf(n) == Answered("stats") /\ n >= 1 /\ Len(last.pre) = n

\* the last operation met an empty collection in an existing or missing file
\* that it could load
OnEmpty(op) == last.op = op /\ Len(last.pre) = 0 /\ Loaded

\* the file is open for writing, or was when the process stopped: it holds
\* only the part of the document written so far
Torn(f) == "partial" \in DOMAIN f

\* the place of an item of the loaded collection in the result
PlaceOf(item) == CHOOSE n \in 1..Len(last.result) : last.result[n] = item

\* what _fetch_movie_data prints when the lookup gives no result
LookupMessages == {"Error: Movie not found",
                   "Error: Unable to connect to the OMDb API"}

-----------------------------------------------------------------------------
(* Properties *)

\* C1: adding a title that is already in the collection fails with a
\* validation error and leaves the stored collection as it was.
C1_DuplicateAddRejected ==
    (last.op = "add" /\ Has(last.pre, last.title))
        => (out \in ValidationErrors /\ Collection = last.pre)

\* C2: deleting a title that is not in the collection reports that the movie
\* does not exist, never a successful deletion, and leaves the stored
\* collection as it was.
C2_DeleteAbsentNotFound ==
    (last.op = "delete" /\ Loaded /\ ~Has(last.pre, last.title))
        => (out = "does not exist" /\ Collection = last.pre)

\* C3: updating the rating of a stored title X to an accepted rating r leaves
\* the same titles in the same order, X with a rating equal to r and its
\* other fields as they were, and every other record as it was.
C3_UpdateIsolation ==
    (last.op = "update" /\ Has(last.pre, last.title) /\ AcceptedRating(last.rating))
        => /\ Len(Collection) = Len(last.pre)
           /\ \A i \in 1..Len(last.pre) :
                 /\ Collection[i].title = last.pre[i].title
                 /\ DOMAIN Collection[i].info = DOMAIN last.pre[i].info
                 /\ \A f \in DOMAIN last.pre[i].info :
                       IF last.pre[i].title = last.title /\ f = "rating"
                       THEN PyEq(Collection[i].info[f], last.rating)
                       ELSE Collection[i].info[f] = last.pre[i].info[f]

\* C3 witness: a rating update changed the rating of one of two stored movies
C3_Witness ==
    /\ last.op = "update"
    /\ last.wrote
    /\ Len(last.pre) >= 2
    /\ AcceptedRating(last.rating)
    /\ ~PyEq(Get(last.pre, last.title)["rating"], last.rating)
    /\ PyEq(Get(Collection, last.title)["rating"], last.rating)

\* C4: updating the rating of a title that is not in the collection fails
\* with a not-found error, creates no record for it and leaves the stored
\* collection as it was.
C4_UpdateAbsentNotFound ==
    (last.op = "update" /\ Loaded /\ ~Has(last.pre, last.title))
        => /\ out = "does not exist"
           /\ ~Has(Collection, last.title)
           /\ Collection = last.pre

\* C5: the collection a store writes is the collection it loads back: the
\* same titles and, under each, the same year, rating and poster.
C5_RoundTrip == last.wrote => SameCollection(Collection, last.written)

\* C5 witness: the CSV store wrote and loaded back a title that needs
\* quoting, with an empty poster, next to another movie
C5_Witness ==
    /\ backend = "csv"
    /\ last.wrote
    /\ Len(last.written) >= 2
    /\ Has(last.written, T_quoted)
    /\ Get(Collection, T_quoted)["poster"] = PyStr(<<>>)

\* C6: when the backing file does not exist the load gives the empty
\* collection without an error, and an add that then writes leaves one record.
C6_MissingFileLoadsEmpty ==
    (last.op # "none" /\ ~last.preExists)
        => /\ last.raised = "none"
           /\ pc # "crashed"
           /\ last.pre = <<>>
           /\ (last.op = "add" /\ last.wrote) => Len(Collection) = 1

\* C7: every stored record has a year, a rating and a poster under its title.
C7_AllFieldsStored ==
    \A i \in 1..Len(Collection) :
        DOMAIN Collection[i].info = {"rating", "year", "poster"}

\* C8: an add whose year is outside [1887, current year] or whose rating is
\* outside [0, 10] fails with a validation error and stores nothing.
C8_OutOfRangeAddRejected ==
    (/\ last.op = "add"
     /\ \/ (last.year.k = "int" /\ ~YearInRange(last.year))
        \/ (IsNumber(last.rating) /\ ~RatingInRange(last.rating)))
        => (out \in ValidationErrors /\ Collection = last.pre)

\* C9: every stored record has an integer year in [1887, current year] and a
\* rating in [0, 10].
C9_StoredValuesInRange ==
    \A i \in 1..Len(Collection) :
        /\ YearInRange(Collection[i].info["year"])
        /\ RatingInRange(Collection[i].info["rating"])

\* C10: deleting a stored title T leaves exactly the other records: T is gone,
\* every other title is still there with its fields unchanged.
C10_DeleteExact ==
    (last.op = "delete" /\ Has(last.pre, last.title))
        => /\ ~Has(Collection, last.title)
           /\ Keys(Collection) = Keys(last.pre) \ {last.title}
           /\ Len(Collection) = Len(last.pre) - 1
           /\ \A t \in Keys(Collection) : Get(Collection, t) = Get(last.pre, t)

\* C10 witness: the first of two stored movies was deleted and the second
\* is what remains
C10_Witness ==
    /\ last.op = "delete"
    /\ Len(last.pre) = 2
    /\ last.pre[1].title = last.title
    /\ Collection = <<last.pre[2]>>

\* C19: when the lookup of an add finds no match, gets an error payload or
\* cannot reach the service, the add reports it and returns to the menu: no
\* exception escapes, the store does not write and the stored collection is
\* the one before the call.
C19_FailedLookupNoWrite ==
    (last.op = "add" /\ backend \in {"json", "csv"} /\ omdb_api_key
        /\ last.lookup \in {"False", "error"})
        => /\ pc = "menu"
           /\ last.raised = "none"
           /\ out \in LookupMessages
           /\ ~last.wrote
           /\ file.exists = last.preExists
           /\ Collection = last.pre

\* C19 witness: a lookup without a match on a collection that holds a movie
C19_Witness ==
    /\ last.op = "add"
    /\ backend \in {"json", "csv"}
    /\ omdb_api_key
    /\ last.lookup = "False"
    /\ out = "Error: Movie not found"
    /\ Len(Collection) >= 1

\* C20: after every sequence of add, delete, update and list calls handed to
\* a StorageJson and a StorageCsv that both start without a file, the two
\* stores list equal collections.
C20_BackendsAgree ==
    SameRecords(StorageJson_list_movies(file), StorageCsv_list_movies(twin))

\* C11: a filter returns, in the order of the collection, exactly the records
\* with rating >= the minimum rating and start year <= year <= end year, all
\* three bounds inclusive; a bound left blank is 0, 1887 or the current year.
C11_FilterExact ==
    (Answered("filter") /\ FilterTyped)
        => /\ last.result =
                SubAt(last.pre,
                      {i \in 1..Len(last.pre) :
                          /\ RatingOfItem(last.pre[i]) >= MinRatingTyped
                          /\ StartYearTyped <= YearOfItem(last.pre[i])
                          /\ YearOfItem(last.pre[i]) <= EndYearTyped})
           /\ last.lines = Lines(last.result)

\* C11 witness: the filter 8.0, 2000, 2010 kept a movie rated exactly 8.0 of
\* the year 2010 and dropped a movie rated 7.9
C11_Witness ==
    /\ Answered("filter")
    /\ last.args = << <<"8", ".", "0">>, <<"2", "0", "0", "0">>,
                      <<"2", "0", "1", "0">> >>
    /\ \E i \in 1..Len(last.result) :
          /\ RatingOfItem(last.result[i]) = 800
          /\ YearOfItem(last.result[i]) = 2010
    /\ \E i \in 1..Len(last.pre) :
          /\ RatingOfItem(last.pre[i]) = 790
          /\ \A n \in 1..Len(last.result) : last.result[n] # last.pre[i]

C14_SearchSubstring ==
    Answered("search")
        => IF Len(TitlesContaining) > 0
           THEN last.result = TitlesContaining
           ELSE last.result = <<>> \/ out = "Did you mean:"

\* C14 witness: the term AB found the movie Ab and left another movie out
C14_Witness ==
    /\ Answered("search")
    /\ last.args = << <<"A", "B">> >>
    /\ Len(last.pre) >= 2
    /\ Len(last.result) = 1
    /\ last.result[1].title = T_Ab

\* C15: when no title contains the term, a search returns the titles with a
\* word scoring above 70 against the term as similar titles, and returns
\* nothing when there is no such word.
C15_FuzzyFallback ==
    (Answered("search") /\ Len(TitlesContaining) = 0)
        => last.result = fuzzy_search(last.pre, Lower(last.args[1]))

\* C16: the statistics of a non-empty collection name as best the first
\* record, in collection order, with the greatest rating and as worst the
\* first record with the least rating.
C16_BestWorstFirst ==
    (Answered("stats") /\ Len(last.pre) > 0)
        => /\ last.stats.best = FirstBest
           /\ last.stats.worst = FirstWorst

\* C16 witness: the two best of three movies share their rating and neither
\* of them is the first of the collection
C16_Witness ==
    /\ Answered("stats")
    /\ Len(last.pre) = 3
    /\ RatingOfItem(last.pre[1]) < RatingOfItem(last.pre[2])
    /\ RatingOfItem(last.pre[2]) = RatingOfItem(last.pre[3])
    /\ last.stats.best = last.pre[2]
    /\ last.stats.worst = last.pre[1]

\* C17: listing an empty collection answers with the message that there are
\* no movies and prints no listing; listing a non-empty collection prints
\* every record once, with its title, year and rating.
C17_ListSignalsEmpty ==
    Answered("list")
        => /\ last.result = last.pre
           /\ last.lines = Lines(last.pre)
           /\ Len(last.pre) = 0 <=> out = "No movies found."

\* C18: the menu loop ends only when the user chooses 0: no operation ends
\* the process with an exception, and every other choice leaves it at a
\* prompt.
C18_OnlyExitEndsLoop ==
    /\ pc # "crashed"
    /\ pc = "exited" => /\ last.op = "choice"
                        /\ IsIntLiteral(last.args[1])
                        /\ IntValue(last.args[1]) = 0

\* C21: the approximate search lists a title exactly when one of the words
\* of the title, lowercased, scores strictly above 70 against the lowercased
\* term, and lists it once, in collection order, also when several of its
\* words score above 70.
C21_FuzzyAboveLimitOnce ==
    Approximate
        => last.result =
              SubAt(last.pre, {i \in 1..Len(last.pre) : HasSimilarWord(last.pre[i])})

\* C21 witness: of three titles one has two words above 70 and is listed
\* once, one has its best word at exactly 70 and is not listed
C21_Witness ==
    /\ Approximate
    /\ Len(last.pre) = 3
    /\ \E i \in 1..Len(last.pre) :
          /\ WordsScoring(last.pre[i], FALSE) = 2
          /\ Cardinality({n \in 1..Len(last.result) : last.result[n] = last.pre[i]}) = 1
    /\ \E i \in 1..Len(last.pre) :
          /\ WordsScoring(last.pre[i], TRUE) = 1
          /\ \A n \in 1..Len(last.result) : last.result[n] # last.pre[i]

\* C22: the median of MovieApp._stats_movies is the rating at index n div 2
\* (from 0) of the ascending ratings; the median of stats_movies of movies.py
\* is that rating for odd n and the mean of the ratings at n/2 - 1 and n/2
\* for even n; on the same collection the two agree for odd n and differ
\* for even n exactly when the two middle ratings differ.
C22_MedianConvention ==
    \A n \in 1..(MaxListed + 1) :
        StatsOf(n)
            => /\ backend \in {"json", "csv"}
                    => last.stats.median.num
                         = AscendingRatings[(n \div 2) + 1] * last.stats.median.den
               /\ (backend = "legacy" /\ n % 2 = 1)
                    => last.stats.median.num
                         = AscendingRatings[(n \div 2) + 1] * last.stats.median.den
               /\ (backend = "legacy" /\ n % 2 = 0)
                    => 2 * last.stats.median.num
                         = (AscendingRatings[n \div 2] + AscendingRatings[(n \div 2) + 1])
                              * last.stats.median.den
               /\ (MedianUpper(last.pre) * MedianMean(last.pre).den
                        # MedianMean(last.pre).num)
                    <=> (n % 2 = 0
                         /\ AscendingRatings[n \div 2] # AscendingRatings[(n \div 2) + 1])

\* C22 witness: movies.py reported 7.95 for the two ratings 7.9 and 8.0,
\* for which MovieApp reports 8.0
C22_Witness ==
    /\ StatsOf(2)
    /\ backend = "legacy"
    /\ last.stats.median = [num |-> 1590, den |-> 2]
    /\ MedianUpper(last.pre) = 800

\* C24: no query (list, stats, random pick, search, the two sorts, filter)
\* and no menu choice writes the backing file: it is the same after every
\* step, so the stored collection and its order are unchanged.
C24_QueriesDoNotWrite == [][file' = file]_vars

\* C24 witness: a sort by rating showed three movies in another order than
\* the stored one, and the file still holds them in the stored order
C24_Witness ==
    /\ Answered("sort_by_rating")
    /\ Len(last.pre) = 3
    /\ last.result # last.pre
    /\ Collection = last.pre
    /\ file = FileOf(backend, last.pre)

\* C25: the statistics and the random pick of an empty collection report
\* that there are no movies and end in no error; the random pick of a
\* non-empty collection is one of its records.
C25_EmptyIsReported ==
    /\ (OnEmpty("stats") \/ OnEmpty("random"))
          => /\ pc = "menu"
             /\ last.raised = "none"
             /\ out = "No movies found."
    /\ (Answered("random") /\ Len(last.pre) > 0)
          => /\ Len(last.result) = 1
             /\ \E i \in 1..Len(last.pre) : last.result[1] = last.pre[i]

\* C23: from the load of a storage call until its write begins the backing
\* file is the complete file the call found, so an interruption there leaves
\* the prior collection; a file holding part of a document is left only by
\* an interruption during the write.
C23_InterruptBeforeWrite ==
    /\ (pc = "loaded" \/ (pc = "interrupted" /\ last.at = "loaded"))
          => (file = last.pre /\ ~Torn(file))
    /\ (Torn(file) /\ pc # "writing")
          => (pc = "interrupted" /\ last.at = "writing")

\* C23 witness: a delete of a stored title was interrupted after its load,
\* just before it opened the file, and the file holds the two movies it held
C23_Witness ==
    /\ pc = "interrupted"
    /\ last.at = "loaded"
    /\ last.op = "delete"
    /\ pend.r.wrote
    /\ file = last.pre
    /\ Len(Collection) = 2

====
